---- MODULE Spec2Model ----
(***************************************************************************)
(* A model of Fasta.hpp: the FastaSequence record (identifier and sequence *)
(* normalisation, append) and the FastaFile collection (insertion with the *)
(* duplicate-identifier policy, lookup, traversal, readFile, writeFile).   *)
(*                                                                         *)
(* A std::string is a sequence of character codes (unsigned char values).  *)
(* A std::map< std::string, std::vector< FastaSequence > > is a function   *)
(* whose domain is the set of keys; its iteration order is the order of    *)
(* std::less< std::string >, modelled by StrLess.                          *)
(***************************************************************************)
EXTENDS Integers, Sequences, FiniteSets, TLC

VARIABLES
    rec,        \* the FastaSequence object under test: [mIdentifier, mSequence]
    ff,         \* the FastaFile object: [mDuplicateIdentifiersAllowed, mIdentifiersSet, mIdentifierSequenceMap]
    disk,       \* the file on disk: [exists, text]
    it,         \* the iterator of the traversal in progress
    yielded,    \* the records the traversal in progress has visited
    earliest,   \* history: for each bucket of ff, the first record ever put into it
    written,    \* history: what the file on disk was written from
    last        \* history: the last operation, [op, args, ret, thrown]

vars == <<rec, ff, disk, it, yielded, earliest, written, last>>

----------------------------------------------------------------------------
(* Characters. *)

CharLF == 10
CharSP == 32
CharSTAR == 42
CharDASH == 45
CharGT == 62
CharA == 65
CharB == 66

\* <cctype> in the "C" locale, on unsigned char values.
isprint(character) == character >= 32 /\ character <= 126
isalpha(character) ==
    \/ (character >= 65 /\ character <= 90)
    \/ (character >= 97 /\ character <= 122)

\* size_t( -1 ). TLC's integers are 32 bits wide, so size_t is modelled 16 bits wide.
SIZE_MAX == 65535

----------------------------------------------------------------------------
(* Bounds. *)

MaxLen == 2         \* length of the strings given to the record's operations
MaxSeqLen == 3      \* length the record's sequence may grow to by append
MaxCount == 2       \* the counts given to append
MaxRecords == 3     \* records a collection holds
MaxBatch == 3       \* length of the vector given to addSequences
MaxWidth == 2       \* the line lengths given to writeFile

----------------------------------------------------------------------------
(* Strings. *)

RECURSIVE StringsUpTo(_, _)
StringsUpTo(alphabet, n) ==
    IF n = 0 THEN { <<>> }
    ELSE LET shorter == StringsUpTo(alphabet, n - 1)
         IN  shorter \cup { <<c>> \o s : c \in alphabet, s \in { t \in shorter : Len(t) = n - 1 } }

\* std::less< std::string >: lexicographic, by unsigned char.
RECURSIVE StrLess(_, _)
StrLess(a, b) ==
    IF b = <<>> THEN FALSE
    ELSE IF a = <<>> THEN TRUE
    ELSE IF a[1] # b[1] THEN a[1] < b[1]
    ELSE StrLess(Tail(a), Tail(b))

Min(a, b) == IF a < b THEN a ELSE b

\* std::string::substr( pos, count ), pos <= size().
substr(s, pos, count) == SubSeq(s, pos + 1, Min(Len(s), pos + count))

----------------------------------------------------------------------------
(* FastaSequence. *)

\* What _normalizeIdentifier leaves in mIdentifier. The two std::regex_replace
\* calls return the trimmed copy, which is dropped: mIdentifier is not assigned.
_normalizeIdentifier(mIdentifier) ==
    LET printable == SelectSeq(mIdentifier, isprint)
    IN  IF Len(printable) > 0 /\ printable[1] = CharGT
        THEN substr(printable, 1, Len(printable))
        ELSE printable

_isValidSequenceCharacter(character) ==
    isalpha(character) \/ character = CharDASH \/ character = CharSTAR

_normalizeSequence(mSequence) == SelectSeq(mSequence, _isValidSequenceCharacter)

FastaSequence(identifier, sequence) ==
    [ mIdentifier |-> _normalizeIdentifier(identifier),
      mSequence   |-> _normalizeSequence(sequence) ]

setIdentifier(self, identifier) ==
    [ self EXCEPT !.mIdentifier = _normalizeIdentifier(identifier) ]

setSequence(self, sequence) ==
    [ self EXCEPT !.mSequence = _normalizeSequence(sequence) ]

\* append( char, count )
appendChar(self, character, count) ==
    IF 0 < count /\ _isValidSequenceCharacter(character)
    THEN [ self EXCEPT !.mSequence = @ \o [ i \in 1..count |-> character ] ]
    ELSE self

\* append( const char*, count ) and append( const std::string&, count ), which
\* passes c_str() on. The strings of the model hold no NUL: strlen is Len.
appendText(self, sequence, count) ==
    IF 0 < count
    THEN LET length == Len(sequence)
             n == IF count < length THEN count ELSE length
         IN  [ self EXCEPT !.mSequence = @ \o SubSeq(sequence, 1, n) ]
    ELSE self

----------------------------------------------------------------------------
(* FastaFile: the container. *)

\* A resize that keeps the last n elements instead of the first.
resize_keepsLast(vector, n) ==
    [ i \in 1..n |-> IF i <= Len(vector) THEN vector[Len(vector) - Min(n, Len(vector)) + i]
                     ELSE FastaSequence(<<>>, <<>>) ]

\* std::vector::resize( n ): the first n elements, filled up with
\* default-constructed FastaSequence objects.
resize(vector, n) ==
    [ i \in 1..n |-> IF i <= Len(vector) THEN vector[i] ELSE FastaSequence(<<>>, <<>>) ]

\* mIdentifierSequenceMap[ sequence.identifier() ].push_back( sequence ):
\* operator[] creates the empty bucket when the key is new.
pushBack(map, sequence) ==
    LET key == sequence.mIdentifier
    IN  IF key \in DOMAIN map
        THEN [ map EXCEPT ![key] = Append(@, sequence) ]
        ELSE [ k \in DOMAIN map \cup {key} |-> IF k = key THEN <<sequence>> ELSE map[k] ]

\* FastaFile(): filename empty.
FastaFile(allowDuplicates) ==
    [ mDuplicateIdentifiersAllowed |-> allowDuplicates,
      mIdentifiersSet              |-> {},
      mIdentifierSequenceMap       |-> <<>> ]

\* The loop of addSequences taken when duplicates are allowed.
RECURSIVE addAll(_, _)
addAll(map, sequences) ==
    IF sequences = <<>> THEN map
    ELSE addAll(pushBack(map, Head(sequences)), Tail(sequences))

\* The second loop of addSequences counting the records it skips too.
RECURSIVE addAbsent_countsSkipped(_, _, _)
addAbsent_countsSkipped(map, sequences, numberAdded) ==
    IF sequences = <<>> THEN [ map |-> map, numberAdded |-> numberAdded ]
    ELSE IF Head(sequences).mIdentifier \notin DOMAIN map
         THEN addAbsent_countsSkipped(pushBack(map, Head(sequences)), Tail(sequences), numberAdded + 1)
         ELSE addAbsent_countsSkipped(map, Tail(sequences), numberAdded + 1)

\* The loop of addSequences taken when duplicates are not allowed:
\* [map, numberAdded].
RECURSIVE addAbsent(_, _, _)
addAbsent(map, sequences, numberAdded) ==
    IF sequences = <<>> THEN [ map |-> map, numberAdded |-> numberAdded ]
    ELSE IF Head(sequences).mIdentifier \notin DOMAIN map
         THEN addAbsent(pushBack(map, Head(sequences)), Tail(sequences), numberAdded + 1)
         ELSE addAbsent(map, Tail(sequences), numberAdded)

\* addSequences: [self, ret].
addSequences(self, sequences) ==
    IF self.mDuplicateIdentifiersAllowed
    THEN [ self |-> [ self EXCEPT !.mIdentifierSequenceMap = addAll(@, sequences) ],
           ret  |-> Len(sequences) ]
    ELSE LET r == addAbsent(self.mIdentifierSequenceMap, sequences, 0)
         IN  [ self |-> [ self EXCEPT !.mIdentifierSequenceMap = r.map ],
               ret  |-> r.numberAdded ]

\* addSequence, both overloads: addSequences of the one-element vector.
addSequence(self, sequence) == addSequences(self, <<sequence>>)

\* allowDuplicateIdentifiers without the scan of the buckets.
allowDuplicateIdentifiers_flagOnly(self, allow) ==
    [ self EXCEPT !.mDuplicateIdentifiersAllowed = allow ]

allowDuplicateIdentifiers(self, allow) ==
    IF ~allow
    THEN [ self EXCEPT !.mDuplicateIdentifiersAllowed = allow,
                       !.mIdentifierSequenceMap =
                           [ k \in DOMAIN @ |-> resize(@[k], 1) ] ]
    ELSE [ self EXCEPT !.mDuplicateIdentifiersAllowed = allow ]

\* An at that answers an absent key with an empty vector instead of throwing.
at_neverThrows(self, identifier) ==
    IF identifier \in DOMAIN self.mIdentifierSequenceMap
    THEN [ ret |-> self.mIdentifierSequenceMap[identifier], thrown |-> "none" ]
    ELSE [ ret |-> <<>>, thrown |-> "none" ]

\* at: [ret, thrown]. std::map::at throws std::out_of_range for an absent key.
at(self, identifier) ==
    IF identifier \in DOMAIN self.mIdentifierSequenceMap
    THEN [ ret |-> self.mIdentifierSequenceMap[identifier], thrown |-> "none" ]
    ELSE [ ret |-> <<>>, thrown |-> "std::out_of_range" ]

getIdentifiers(self) == self.mIdentifiersSet

hasIdentifier(self, identifier) == identifier \in self.mIdentifiersSet

----------------------------------------------------------------------------
(* readFile and writeFile. A file is [exists, text]: text is the flat      *)
(* character stream, each line ended by CharLF (std::endl).                *)

\* Index of the first CharLF of text, 0 when there is none.
RECURSIVE findLF(_, _)
findLF(text, i) ==
    IF i > Len(text) THEN 0
    ELSE IF text[i] = CharLF THEN i
    ELSE findLF(text, i + 1)

\* The lines the successive std::getline calls deliver until the stream fails.
RECURSIVE getlines(_)
getlines(text) ==
    IF text = <<>> THEN <<>>
    ELSE LET n == findLF(text, 1)
         IN  IF n = 0 THEN <<text>>
             ELSE <<SubSeq(text, 1, n - 1)>> \o getlines(SubSeq(text, n + 1, Len(text)))

\* The three statements that store the record being accumulated. st is the state
\* of readFile's locals and of the two members; pushed logs the records stored.
storeSequence(st) ==
    LET sequence == setSequence(st.sequence, st.sequenceString)
    IN  [ st EXCEPT !.sequence = sequence,
                    !.mIdentifiersSet = @ \cup { sequence.mIdentifier },
                    !.mIdentifierSequenceMap = pushBack(@, sequence),
                    !.pushed = Append(@, sequence) ]

\* One pass of the while loop of readFile. line[ 0 ] of an empty line is NUL.
readLine(st, line) ==
    IF Len(line) > 0 /\ line[1] = CharGT
    THEN LET stored == IF 0 < Len(st.sequence.mIdentifier) THEN storeSequence(st) ELSE st
         IN  [ stored EXCEPT !.sequence = setIdentifier(@, line),
                             !.sequenceString = <<>> ]
    ELSE [ st EXCEPT !.sequenceString = @ \o line ]

RECURSIVE readLines(_, _)
readLines(st, lines) ==
    IF lines = <<>> THEN st
    ELSE readLines(readLine(st, Head(lines)), Tail(lines))

\* readFile: [self, ret, pushed]. A file that cannot be opened leaves the stream
\* failed: std::getline delivers nothing and the loop body never runs.
readFile(self, file, allowDuplicates) ==
    LET lines == IF file.exists THEN getlines(file.text) ELSE <<>>
        start == [ sequence               |-> FastaSequence(<<>>, <<>>),
                   sequenceString         |-> <<>>,
                   mIdentifiersSet        |-> self.mIdentifiersSet,
                   mIdentifierSequenceMap |-> self.mIdentifierSequenceMap,
                   pushed                 |-> <<>> ]
        done  == storeSequence(readLines(start, lines))
        read  == [ self EXCEPT !.mIdentifiersSet = done.mIdentifiersSet,
                               !.mIdentifierSequenceMap = done.mIdentifierSequenceMap ]
    IN  [ self   |-> allowDuplicateIdentifiers(read, allowDuplicates),
          ret    |-> 0,
          pushed |-> done.pushed ]

\* The innermost loop of writeFile leaving a last, shorter line out.
RECURSIVE writeLines_fullLinesOnly(_, _, _)
writeLines_fullLinesOnly(sequence, offset, lineLength) ==
    IF offset + lineLength <= Len(sequence)
    THEN substr(sequence, offset, lineLength) \o <<CharLF>>
            \o writeLines_fullLinesOnly(sequence, (offset + lineLength) % (SIZE_MAX + 1), lineLength)
    ELSE <<>>

\* The innermost loop of writeFile: offset is a size_t and wraps.
RECURSIVE writeLines(_, _, _)
writeLines(sequence, offset, lineLength) ==
    IF offset < Len(sequence)
    THEN substr(sequence, offset, lineLength) \o <<CharLF>>
            \o writeLines(sequence, (offset + lineLength) % (SIZE_MAX + 1), lineLength)
    ELSE <<>>

writeSequence(sequence, lineLength) ==
    <<CharGT>> \o sequence.mIdentifier \o <<CharLF>>
        \o writeLines(sequence.mSequence, 0, lineLength)

RECURSIVE writeVector(_, _)
writeVector(vector, lineLength) ==
    IF vector = <<>> THEN <<>>
    ELSE writeSequence(Head(vector), lineLength) \o writeVector(Tail(vector), lineLength)

\* The least key of a non-empty set of keys.
MinKey(keys) == CHOOSE k \in keys : \A j \in keys \ {k} : StrLess(k, j)

\* The range-for over mIdentifierSequenceMap: the keys in increasing order.
RECURSIVE writeMap(_, _, _)
writeMap(map, keys, lineLength) ==
    IF keys = {} THEN <<>>
    ELSE LET k == MinKey(keys)
         IN  writeVector(map[k], lineLength) \o writeMap(map, keys \ {k}, lineLength)

\* writeFile: [file, ret].
writeFile(self, lineLength) ==
    LET length == IF lineLength = 0 THEN SIZE_MAX ELSE lineLength
    IN  [ file |-> [ exists |-> TRUE,
                     text   |-> writeMap(self.mIdentifierSequenceMap,
                                         DOMAIN self.mIdentifierSequenceMap, length) ],
          ret  |-> 0 ]

----------------------------------------------------------------------------
(* FastaFile::iterator and FastaFile::const_iterator, which differ in      *)
(* constness only. A position of the map is [atEnd, key].                  *)

MapEnd == [ atEnd |-> TRUE, key |-> <<>> ]

mapBegin(map) ==
    IF DOMAIN map = {} THEN MapEnd
    ELSE [ atEnd |-> FALSE, key |-> MinKey(DOMAIN map) ]

\* operator++ of the map's iterator, not at the end.
mapNext(map, position) ==
    LET greater == { k \in DOMAIN map : StrLess(position.key, k) }
    IN  IF greater = {} THEN MapEnd
        ELSE [ atEnd |-> FALSE, key |-> MinKey(greater) ]

\* iterator(): mMapIterator is left singular.
DefaultIterator == [ mIsValid |-> FALSE, mMapIterator |-> MapEnd, mVectorOffset |-> 0 ]

\* iterator( mapIterator )
Iterator(mapIterator) ==
    [ mIsValid |-> TRUE, mMapIterator |-> mapIterator, mVectorOffset |-> 0 ]

begin(self) == Iterator(mapBegin(self.mIdentifierSequenceMap))

end(self) == Iterator(MapEnd)

\* operator==
iteratorEquals(this, other) ==
    /\ this.mIsValid
    /\ this.mIsValid = other.mIsValid
    /\ this.mMapIterator = other.mMapIterator
    /\ this.mVectorOffset = other.mVectorOffset

\* operator*, on a valid iterator that is not the end.
dereference(self, this) ==
    self.mIdentifierSequenceMap[this.mMapIterator.key][this.mVectorOffset + 1]

\* operator++ (pre-increment)
increment(self, this) ==
    IF this.mIsValid
    THEN [ this EXCEPT !.mMapIterator = mapNext(self.mIdentifierSequenceMap, @) ]
    ELSE this

----------------------------------------------------------------------------
(* Inputs. *)

RecordChars == { CharLF, CharSP, CharSTAR, CharGT, CharA }
RecordStrings == StringsUpTo(RecordChars, MaxLen)
Counts == (0..MaxCount) \cup { SIZE_MAX }

\* The records copied or moved from: built by the constructor and one append.
OtherRecords ==
    { appendText(FastaSequence(i, <<>>), t, SIZE_MAX) :
        i \in { <<>>, <<CharGT, CharA>> }, t \in { <<>>, <<CharA>>, <<CharDASH>>, <<CharLF>> } }

\* The records given to the container: built by the constructor.
PoolIdentifiers == { <<>>, <<CharA>>, <<CharGT, CharB>> }
PoolSequences == { <<CharA>>, <<CharB, CharSP, CharA, CharDASH>> }
Records == { FastaSequence(i, s) : i \in PoolIdentifiers, s \in PoolSequences }
Batches == UNION { [ 1..n -> Records ] : n \in 0..MaxBatch }
Identifiers == { r.mIdentifier : r \in Records }

\* A file with two records of one identifier.
DuplicateText ==
    <<CharGT, CharA, CharLF, CharA, CharLF, CharGT, CharA, CharLF, CharB, CharLF>>

\* The texts of the files read that writeFile did not write.
InputTexts ==
    { <<>>,
      <<CharGT, CharA, CharLF, CharA, CharLF>>,
      DuplicateText,
      <<CharA, CharLF, CharGT, CharB, CharLF, CharB, CharLF, CharA>>,
      <<CharGT, CharLF, CharA, CharLF, CharGT, CharB, CharSP, CharLF>>,
      <<CharGT, CharSP, CharA, CharLF, CharB, CharLF, CharSP, CharA, CharLF,
        CharGT, CharB, CharLF, CharA>> }

RECURSIVE count(_, _)
count(map, keys) ==
    IF keys = {} THEN 0
    ELSE LET k == CHOOSE k \in keys : TRUE
         IN  Len(map[k]) + count(map, keys \ {k})

\* The number of records a container holds.
size(self) == count(self.mIdentifierSequenceMap, DOMAIN self.mIdentifierSequenceMap)

\* History: the first record offered for each identifier.
RECURSIVE firstOffered(_, _)
firstOffered(first, sequences) ==
    IF sequences = <<>> THEN first
    ELSE LET key == Head(sequences).mIdentifier
         IN  IF key \in DOMAIN first
             THEN firstOffered(first, Tail(sequences))
             ELSE firstOffered(
                     [ k \in DOMAIN first \cup {key} |-> IF k = key THEN Head(sequences) ELSE first[k] ],
                     Tail(sequences))

\* The containers written out first: filled by addSequences, then the policy set.
BuiltFiles ==
    { [ self     |-> allowDuplicateIdentifiers(addSequences(FastaFile(TRUE), b).self, allow),
        earliest |-> firstOffered(<<>>, b) ] : b \in Batches, allow \in BOOLEAN }

NoFile == [ exists |-> FALSE, text |-> <<>> ]
InputFiles == { NoFile } \cup { [ exists |-> TRUE, text |-> t ] : t \in InputTexts }

\* The containers copied or moved from: constructed from a file.
OtherFiles ==
    { LET r == readFile(FastaFile(allow), f, allow)
      IN  [ self |-> r.self, earliest |-> firstOffered(<<>>, r.pushed) ] :
        f \in InputFiles, allow \in BOOLEAN }
NotWritten == [ valid |-> FALSE, map |-> <<>>, lineLength |-> 0 ]
Void == <<>>
Done(op, args, ret, thrown) == [ op |-> op, args |-> args, ret |-> ret, thrown |-> thrown ]

----------------------------------------------------------------------------
(* The operations on the FastaSequence object. *)

recordVars == <<rec>>
fileVars == <<ff, disk, it, yielded, earliest, written>>

Construct(identifier, sequence) ==
    /\ rec' = FastaSequence(identifier, sequence)
    /\ last' = Done("FastaSequence", <<>>, Void, "none")
    /\ UNCHANGED fileVars

SetIdentifier(identifier) ==
    /\ rec' = setIdentifier(rec, identifier)
    /\ last' = Done("setIdentifier", <<identifier>>, Void, "none")
    /\ UNCHANGED fileVars

SetSequence(sequence) ==
    /\ rec' = setSequence(rec, sequence)
    /\ last' = Done("setSequence", <<sequence>>, Void, "none")
    /\ UNCHANGED fileVars

AppendChar(character, n) ==
    /\ n # SIZE_MAX
    /\ Len(rec.mSequence) + n <= MaxSeqLen
    /\ rec' = appendChar(rec, character, n)
    /\ last' = Done("append", <<>>, Void, "none")
    /\ UNCHANGED fileVars

AppendText(sequence, n) ==
    /\ Len(rec.mSequence) + Len(sequence) <= MaxSeqLen
    /\ rec' = appendText(rec, sequence, n)
    /\ last' = Done("append", <<>>, Void, "none")
    /\ UNCHANGED fileVars

\* operator=( const FastaSequence& ), other being another object.
CopyAssignRecord(other) ==
    /\ rec' = other
    /\ last' = Done("operator=", <<>>, Void, "none")
    /\ UNCHANGED fileVars

\* operator=( FastaSequence&& ), other being a temporary.
MoveAssignRecord(other) ==
    /\ rec' = other
    /\ last' = Done("operator=&&", <<>>, Void, "none")
    /\ UNCHANGED fileVars

NextRecord ==
    \/ \E i \in RecordStrings, s \in RecordStrings : Construct(i, s)
    \/ \E i \in RecordStrings : SetIdentifier(i)
    \/ \E s \in RecordStrings : SetSequence(s)
    \/ \E c \in RecordChars, n \in Counts : AppendChar(c, n)
    \/ \E s \in RecordStrings, n \in Counts : AppendText(s, n)
    \/ \E o \in OtherRecords : CopyAssignRecord(o)
    \/ \E o \in OtherRecords : MoveAssignRecord(o)

Init ==
    /\ rec = FastaSequence(<<>>, <<>>)
    /\ ff = FastaFile(TRUE)
    /\ disk = NoFile
    /\ it = DefaultIterator
    /\ yielded = <<>>
    /\ earliest = <<>>
    /\ written = NotWritten
    /\ last = Done("init", <<>>, Void, "none")

SpecRecord == Init /\ [][NextRecord]_vars

----------------------------------------------------------------------------
(* The operations on the FastaFile object. The container is not changed    *)
(* while a traversal of it is in progress.                                 *)

Idle == ~it.mIsValid

\* FastaFile( filename, allowDuplicates ): filename is empty, or names file.
NewFastaFile(named, file, allowDuplicates) ==
    /\ Idle
    /\ LET r == readFile(FastaFile(allowDuplicates), file, allowDuplicates)
       IN  /\ named => Len(r.pushed) <= MaxRecords
           /\ ff' = IF named THEN r.self ELSE FastaFile(allowDuplicates)
           /\ earliest' = IF named THEN firstOffered(<<>>, r.pushed) ELSE <<>>
    /\ last' = Done("FastaFile", <<named, file, allowDuplicates>>, Void, "none")
    /\ UNCHANGED <<rec, disk, it, yielded, written>>

AddSequence(sequence) ==
    /\ Idle
    /\ size(ff) + 1 <= MaxRecords
    /\ LET r == addSequence(ff, sequence)
       IN  /\ ff' = r.self
           /\ last' = Done("addSequence", <<sequence>>, r.ret, "none")
    /\ earliest' = firstOffered(earliest, <<sequence>>)
    /\ UNCHANGED <<rec, disk, it, yielded, written>>

AddSequences(sequences) ==
    /\ Idle
    /\ size(ff) + Len(sequences) <= MaxRecords
    /\ LET r == addSequences(ff, sequences)
       IN  /\ ff' = r.self
           /\ last' = Done("addSequences", sequences, r.ret, "none")
    /\ earliest' = firstOffered(earliest, sequences)
    /\ UNCHANGED <<rec, disk, it, yielded, written>>

AllowDuplicateIdentifiers(allow) ==
    /\ Idle
    /\ ff' = allowDuplicateIdentifiers(ff, allow)
    /\ last' = Done("allowDuplicateIdentifiers", <<allow, size(ff)>>, Void, "none")
    /\ UNCHANGED <<rec, disk, it, yielded, earliest, written>>

\* readFile( filename, allowDuplicates ): filename names file.
ReadFile(file, allowDuplicates) ==
    /\ Idle
    /\ LET r == readFile(ff, file, allowDuplicates)
       IN  /\ size(ff) + Len(r.pushed) <= MaxRecords
           /\ ff' = r.self
           /\ earliest' = firstOffered(earliest, r.pushed)
           /\ last' = Done("readFile", <<file, allowDuplicates>>, r.ret, "none")
    /\ UNCHANGED <<rec, disk, it, yielded, written>>

WriteFile(lineLength) ==
    /\ Idle
    /\ LET r == writeFile(ff, lineLength)
       IN  /\ disk' = r.file
           /\ last' = Done("writeFile", <<lineLength>>, r.ret, "none")
    /\ written' = [ valid |-> TRUE, map |-> ff.mIdentifierSequenceMap, lineLength |-> lineLength ]
    /\ UNCHANGED <<rec, ff, it, yielded, earliest>>

\* operator=( const FastaFile& ), other being another object.
CopyAssign(other) ==
    /\ Idle
    /\ ff' = other.self
    /\ earliest' = other.earliest
    /\ last' = Done("operator=", <<>>, Void, "none")
    /\ UNCHANGED <<rec, disk, it, yielded, written>>

\* operator=( FastaFile&& ), other being a temporary.
MoveAssign(other) ==
    /\ Idle
    /\ ff' = other.self
    /\ earliest' = other.earliest
    /\ last' = Done("operator=&&", <<>>, Void, "none")
    /\ UNCHANGED <<rec, disk, it, yielded, written>>

At(identifier) ==
    /\ Idle
    /\ LET r == at(ff, identifier)
       IN  last' = Done("at", <<identifier>>, r.ret, r.thrown)
    /\ UNCHANGED <<rec, ff, disk, it, yielded, earliest, written>>

HasIdentifier(identifier) ==
    /\ Idle
    /\ last' = Done("hasIdentifier", <<identifier>>, hasIdentifier(ff, identifier), "none")
    /\ UNCHANGED <<rec, ff, disk, it, yielded, earliest, written>>

GetIdentifiers ==
    /\ Idle
    /\ last' = Done("getIdentifiers", <<>>, getIdentifiers(ff), "none")
    /\ UNCHANGED <<rec, ff, disk, it, yielded, earliest, written>>

\* for ( it = begin(); it != end(); ++it ) visit( *it ): the initialisation.
Begin ==
    /\ Idle
    /\ it' = begin(ff)
    /\ yielded' = <<>>
    /\ last' = Done("begin", <<>>, Void, "none")
    /\ UNCHANGED <<rec, ff, disk, earliest, written>>

\* One pass of the loop: the condition holds, the body and the increment.
Visit ==
    /\ it.mIsValid
    /\ ~iteratorEquals(it, end(ff))
    /\ yielded' = Append(yielded, dereference(ff, it))
    /\ it' = increment(ff, it)
    /\ last' = Done("operator++", <<>>, Void, "none")
    /\ UNCHANGED <<rec, ff, disk, earliest, written>>

\* The condition fails: the loop is left and the iterator dropped.
Finish ==
    /\ it.mIsValid
    /\ iteratorEquals(it, end(ff))
    /\ it' = DefaultIterator
    /\ yielded' = <<>>
    /\ last' = Done("traversal", <<>>, yielded, "none")
    /\ UNCHANGED <<rec, ff, disk, earliest, written>>

Next ==
    \/ \E named \in BOOLEAN, f \in InputFiles, allow \in BOOLEAN : NewFastaFile(named, f, allow)
    \/ \E r \in Records : AddSequence(r)
    \/ \E n \in 0..Min(MaxBatch, MaxRecords - size(ff)) : \E b \in [ 1..n -> Records ] : AddSequences(b)
    \/ \E allow \in BOOLEAN : AllowDuplicateIdentifiers(allow)
    \/ \E f \in InputFiles, allow \in BOOLEAN : ReadFile(f, allow)
    \/ \E o \in OtherFiles : CopyAssign(o)
    \/ \E o \in OtherFiles : MoveAssign(o)
    \/ \E i \in Identifiers : At(i)
    \/ \E i \in Identifiers : HasIdentifier(i)
    \/ GetIdentifiers
    \/ Begin
    \/ Visit
    \/ Finish

Spec == Init /\ [][Next]_vars

\* Writing a container out and reading the file back, into the same container
\* or into a new one. The container written out first is any of BuiltFiles.
InitCodec ==
    /\ rec = FastaSequence(<<>>, <<>>)
    /\ \E o \in BuiltFiles : ff = o.self /\ earliest = o.earliest
    /\ disk = NoFile
    /\ it = DefaultIterator
    /\ yielded = <<>>
    /\ written = NotWritten
    /\ last = Done("init", <<>>, Void, "none")

NextCodec ==
    \/ \E allow \in BOOLEAN : NewFastaFile(FALSE, NoFile, allow)
    \/ \E w \in 0..MaxWidth : WriteFile(w)
    \/ \E allow \in BOOLEAN : ReadFile(disk, allow)

SpecCodec == InitCodec /\ [][NextCodec]_vars

----------------------------------------------------------------------------
(* Claims. *)

Buckets == ff.mIdentifierSequenceMap

\* The records of the buckets of keys, bucket after bucket in increasing key order.
RECURSIVE Flatten(_, _)
Flatten(m, keys) ==
    IF keys = {} THEN <<>>
    ELSE LET k == MinKey(keys)
         IN  m[k] \o Flatten(m, keys \ {k})

\* C1: a full traversal, from begin() by ++ until end(), yields every stored
\* record exactly once: the buckets in lexicographic order of identifier, each
\* bucket in insertion order, all records of a bucket with several included.
C1_FullTraversal ==
    last.op = "traversal" => last.ret = Flatten(Buckets, DOMAIN Buckets)

\* C2: the three queries agree for every identifier: hasIdentifier is true
\* exactly when the identifier is a bucket key, which is exactly when at
\* succeeds, and getIdentifiers is the set of bucket keys.
C2_QueriesAgree ==
    /\ last.op = "hasIdentifier" => (last.ret <=> last.args[1] \in DOMAIN Buckets)
    /\ last.op = "at" => (last.thrown = "none" <=> last.args[1] \in DOMAIN Buckets)
    /\ last.op = "getIdentifiers" => last.ret = DOMAIN Buckets

\* C3: reading the file writeFile wrote, with any line length >= 1, into a new
\* container with duplicates allowed gives the buckets that were written: the
\* same keys, each with the same records in the same order.
C3_RoundTrip ==
    [][ ( /\ last'.op = "readFile"
          /\ last'.args[2]
          /\ ff = FastaFile(ff.mDuplicateIdentifiersAllowed)
          /\ written.valid
          /\ written.lineLength >= 1 )
        => ff'.mIdentifierSequenceMap = written.map ]_vars

\* C4: whenever duplicates are not allowed, every bucket holds at most one
\* record, and that record is the earliest one inserted for its identifier.
C4_NoDuplicates ==
    ~ff.mDuplicateIdentifiersAllowed =>
        \A k \in DOMAIN Buckets :
            /\ Len(Buckets[k]) <= 1
            /\ Len(Buckets[k]) = 1 => (k \in DOMAIN earliest /\ Buckets[k][1] = earliest[k])

C4_Witness ==
    /\ ~ff.mDuplicateIdentifiersAllowed
    /\ last.op = "readFile"
    /\ ~last.args[2]
    /\ last.args[1].text = DuplicateText
    /\ \E k \in DOMAIN Buckets : Buckets[k] = <<earliest[k]>>

\* What insert does with one record: [self, ret].
InsertOne(self, sequence) ==
    LET m == self.mIdentifierSequenceMap
        key == sequence.mIdentifier
    IN  IF key \notin DOMAIN m
        THEN [ self |-> [ self EXCEPT !.mIdentifierSequenceMap =
                            [ k \in DOMAIN m \cup {key} |-> IF k = key THEN <<sequence>> ELSE m[k] ] ],
               ret  |-> 1 ]
        ELSE IF self.mDuplicateIdentifiersAllowed
        THEN [ self |-> [ self EXCEPT !.mIdentifierSequenceMap[key] = m[key] \o <<sequence>> ],
               ret  |-> 1 ]
        ELSE [ self |-> self, ret |-> 0 ]

RECURSIVE InsertEach(_, _, _)
InsertEach(self, sequences, n) ==
    IF sequences = <<>> THEN [ self |-> self, ret |-> n ]
    ELSE LET r == InsertOne(self, Head(sequences))
         IN  InsertEach(r.self, Tail(sequences), n + r.ret)

\* C5: addSequences has the effect of inserting each record in input order and
\* returns the number added: with duplicates allowed every record goes to the
\* end of its bucket; with duplicates disallowed a record is added only when no
\* bucket exists for its identifier at that moment, and is skipped otherwise.
C5_InsertAll ==
    [][ /\ last'.op = "addSequences" =>
              LET expected == InsertEach(ff, last'.args, 0)
              IN  ff' = expected.self /\ last'.ret = expected.ret
        /\ last'.op = "addSequence" =>
              LET expected == InsertOne(ff, last'.args[1])
              IN  ff' = expected.self /\ last'.ret = expected.ret ]_vars

C5_Witness ==
    /\ last.op = "addSequences"
    /\ ~ff.mDuplicateIdentifiersAllowed
    /\ Len(last.args) = 3
    /\ last.ret = 2
    /\ last.args[1].mIdentifier = last.args[2].mIdentifier
    /\ last.args[1] # last.args[2]

\* C6: allowDuplicateIdentifiers( false ) leaves every bucket with exactly its
\* first-inserted record and removes no key; allowDuplicateIdentifiers( true )
\* changes the flag only, so discarded records are not restored.
C6_PolicyToggle ==
    [][ last'.op = "allowDuplicateIdentifiers" =>
            /\ ff'.mDuplicateIdentifiersAllowed = last'.args[1]
            /\ ff'.mIdentifiersSet = ff.mIdentifiersSet
            /\ IF last'.args[1]
               THEN ff'.mIdentifierSequenceMap = Buckets
               ELSE /\ DOMAIN ff'.mIdentifierSequenceMap = DOMAIN Buckets
                    /\ \A k \in DOMAIN Buckets :
                          /\ ff'.mIdentifierSequenceMap[k] = <<Buckets[k][1]>>
                          /\ Buckets[k][1] = earliest[k] ]_vars

\* allowDuplicateIdentifiers( false ) has cut a bucket of several records.
C6_Witness ==
    /\ last.op = "allowDuplicateIdentifiers"
    /\ ~last.args[1]
    /\ size(ff) < last.args[2]

\* C7: readFile, and the constructor given a file name, signal a failure to
\* the caller whenever the file cannot be opened.
C7_ReadFailureSignalled ==
    /\ (last.op = "readFile" /\ ~last.args[1].exists)
          => (last.ret # 0 \/ last.thrown # "none")
    /\ (last.op = "FastaFile" /\ last.args[1] /\ ~last.args[2].exists)
          => last.thrown # "none"

IsSequenceCharacter(c) == c \in (65..90) \cup (97..122) \cup { 45, 42 }
IsControlCharacter(c) == c < 32 \/ c = 127

\* C8: after any sequence of record operations the sequence holds only
\* alphabetic characters, '-' or '*'.
C8_SequenceAlwaysValid ==
    \A i \in 1..Len(rec.mSequence) : IsSequenceCharacter(rec.mSequence[i])

\* C9: the identifier stored by the constructor or setIdentifier holds no
\* control character and does not begin with '>'; the sequence stored by the
\* constructor or setSequence holds only alphabetic characters, '-' or '*'.
C9_Filtering ==
    /\ last.op \in { "FastaSequence", "setIdentifier" } =>
          /\ \A i \in 1..Len(rec.mIdentifier) : ~IsControlCharacter(rec.mIdentifier[i])
          /\ Len(rec.mIdentifier) > 0 => rec.mIdentifier[1] # CharGT
    /\ last.op \in { "FastaSequence", "setSequence" } =>
          \A i \in 1..Len(rec.mSequence) : IsSequenceCharacter(rec.mSequence[i])

\* C10: setIdentifier given the identifier setIdentifier stored stores the
\* identical string, and setSequence given the sequence setSequence stored
\* stores the identical string.
C10_Idempotent ==
    [][ /\ ( last.op = "setIdentifier" /\ last'.op = "setIdentifier"
             /\ last'.args[1] = rec.mIdentifier ) => rec'.mIdentifier = rec.mIdentifier
        /\ ( last.op = "setSequence" /\ last'.op = "setSequence"
             /\ last'.args[1] = rec.mSequence ) => rec'.mSequence = rec.mSequence ]_vars


\* The lines a sequence is cut into: consecutive pieces of exactly width
\* characters, the last one possibly shorter; one piece when width is 0.
CutIntoLines(sequence, width) ==
    IF width = 0
    THEN IF sequence = <<>> THEN <<>> ELSE <<sequence>>
    ELSE [ i \in 1..((Len(sequence) + width - 1) \div width) |->
             SubSeq(sequence, (i - 1) * width + 1,
                    IF i * width < Len(sequence) THEN i * width ELSE Len(sequence)) ]

RECURSIVE Joined(_)
Joined(lines) ==
    IF lines = <<>> THEN <<>>
    ELSE Head(lines) \o <<CharLF>> \o Joined(Tail(lines))

RECURSIVE ExpectedText(_, _)
ExpectedText(records, width) ==
    IF records = <<>> THEN <<>>
    ELSE Joined(<< <<CharGT>> \o Head(records).mIdentifier >>)
            \o Joined(CutIntoLines(Head(records).mSequence, width))
            \o ExpectedText(Tail(records), width)

\* C11: writeFile emits, bucket after bucket in lexicographic identifier order
\* and record after record in insertion order, the header line '>' identifier
\* and then the sequence cut into lines of exactly lineLength characters, the
\* last possibly shorter; with lineLength 0 a non-empty sequence is one line.
C11_WriteFormat ==
    last.op = "writeFile" =>
        /\ disk.exists
        /\ disk.text = ExpectedText(Flatten(Buckets, DOMAIN Buckets), last.args[1])

\* Two buckets written with line length 2, one sequence of three characters.
C11_Witness ==
    /\ last.op = "writeFile"
    /\ last.args[1] = 2
    /\ Cardinality(DOMAIN Buckets) >= 2
    /\ \E k \in DOMAIN Buckets : Len(Buckets[k]) >= 2 /\ Len(Buckets[k][2].mSequence) = 3

\* C11, the case of line length 0: a sequence of three characters on one line.
C11_WitnessUnwrapped ==
    /\ last.op = "writeFile"
    /\ last.args[1] = 0
    /\ \E k \in DOMAIN Buckets : Len(Buckets[k][1].mSequence) = 3


\* C12: at returns all records stored under the identifier, in insertion
\* order, when a bucket exists for it; otherwise it fails with
\* std::out_of_range, leaves the container unchanged and creates no bucket.
C12_Lookup ==
    [][ last'.op = "at" =>
            /\ ff' = ff
            /\ IF last'.args[1] \in DOMAIN Buckets
               THEN /\ last'.thrown = "none"
                    /\ last'.ret = Buckets[last'.args[1]]
                    /\ last'.ret[1] = earliest[last'.args[1]]
               ELSE /\ last'.thrown = "std::out_of_range"
                    /\ last'.args[1] \notin DOMAIN ff'.mIdentifierSequenceMap ]_vars

\* at has failed on a container that holds other buckets.
C12_Witness ==
    /\ last.op = "at"
    /\ last.thrown = "std::out_of_range"
    /\ DOMAIN Buckets # {}

\* at has returned a bucket of several records.
C12_WitnessFound ==
    /\ last.op = "at"
    /\ last.thrown = "none"
    /\ Len(last.ret) >= 2


IsHeader(line) == Len(line) > 0 /\ line[1] = CharGT
HasHeader(lines) == \E i \in 1..Len(lines) : IsHeader(lines[i])
OnlySequenceCharacters(s) == SelectSeq(s, IsSequenceCharacter)

\* The number of lines before the first header line, and their concatenation.
RECURSIVE LeadingCount(_)
LeadingCount(lines) ==
    IF lines = <<>> \/ IsHeader(Head(lines)) THEN 0 ELSE 1 + LeadingCount(Tail(lines))

RECURSIVE LeadingText(_)
LeadingText(lines) ==
    IF lines = <<>> \/ IsHeader(Head(lines)) THEN <<>>
    ELSE Head(lines) \o LeadingText(Tail(lines))

\* C13: reading a file in which non-header lines precede the first header
\* line stores a record whose identifier is empty and whose sequence is the
\* normalized concatenation of those lines.
C13_LeadingLinesKept ==
    [][ ( /\ last'.op = "readFile"
          /\ last'.args[1].exists
          /\ last'.args[2]
          /\ LET lines == getlines(last'.args[1].text)
             IN  lines # <<>> /\ ~IsHeader(lines[1]) /\ HasHeader(lines) )
        => LET lines  == getlines(last'.args[1].text)
               before == IF <<>> \in DOMAIN Buckets THEN Len(Buckets[<<>>]) ELSE 0
               after  == ff'.mIdentifierSequenceMap
           IN  /\ <<>> \in DOMAIN after
               /\ Len(after[<<>>]) > before
               /\ \E i \in (before + 1)..Len(after[<<>>]) :
                     after[<<>>][i] = [ mIdentifier |-> <<>>,
                                        mSequence   |-> OnlySequenceCharacters(LeadingText(lines)) ] ]_vars

IsWhitespace(c) == c \in { 9, 10, 11, 12, 13, 32 }

\* C14: the identifier stored by the constructor or setIdentifier has no
\* leading and no trailing whitespace.
C14_Trimmed ==
    (last.op \in { "FastaSequence", "setIdentifier" } /\ rec.mIdentifier # <<>>) =>
        /\ ~IsWhitespace(rec.mIdentifier[1])
        /\ ~IsWhitespace(rec.mIdentifier[Len(rec.mIdentifier)])

RECURSIVE TrimLeft(_)
TrimLeft(s) == IF s # <<>> /\ IsWhitespace(Head(s)) THEN TrimLeft(Tail(s)) ELSE s

RECURSIVE TrimRight(_)
TrimRight(s) ==
    IF s # <<>> /\ IsWhitespace(s[Len(s)]) THEN TrimRight(SubSeq(s, 1, Len(s) - 1)) ELSE s

IsPrintable(c) == c >= 32 /\ c <= 126

\* The identifier of a header line: the printable characters, without one
\* leading '>', and trimmed or not.
HeaderIdentifier(line, trimmed) ==
    LET printable == SelectSeq(line, IsPrintable)
        unmarked  == IF printable # <<>> /\ printable[1] = CharGT THEN Tail(printable) ELSE printable
    IN  IF trimmed THEN TrimRight(TrimLeft(unmarked)) ELSE unmarked

\* One record per header line of lines, whose first line is a header.
RECURSIVE ExpectedRecords(_, _)
ExpectedRecords(lines, trimmed) ==
    IF lines = <<>> THEN <<>>
    ELSE LET rest == Tail(lines)
             n    == LeadingCount(rest)
         IN  << [ mIdentifier |-> HeaderIdentifier(Head(lines), trimmed),
                  mSequence   |-> OnlySequenceCharacters(LeadingText(rest)) ] >>
                \o ExpectedRecords(SubSeq(rest, n + 1, Len(rest)), trimmed)

\* A file whose first line is a header and whose headers all have an identifier.
WellFormed(file, trimmed) ==
    /\ file.exists
    /\ LET lines == getlines(file.text)
       IN  /\ lines # <<>>
           /\ IsHeader(lines[1])
           /\ \A i \in 1..Len(lines) :
                 IsHeader(lines[i]) => HeaderIdentifier(lines[i], trimmed) # <<>>

ParsedAsExpected(trimmed) ==
    ( /\ last'.op = "readFile"
      /\ DOMAIN Buckets = {}
      /\ last'.args[2]
      /\ WellFormed(last'.args[1], trimmed) )
    => ff'.mIdentifierSequenceMap =
          InsertEach(FastaFile(TRUE),
                     ExpectedRecords(getlines(last'.args[1].text), trimmed),
                     0).self.mIdentifierSequenceMap

\* C15: reading, into an empty container with duplicates allowed, a file whose
\* first line is a header and whose headers all normalize to a non-empty
\* identifier gives one record per header line: its identifier the normalized
\* header line, its sequence the normalized concatenation of the lines up to
\* the next header or the end of input, records of one identifier in file order.
C15_OneRecordPerHeader == [][ParsedAsExpected(TRUE)]_vars

\* C15 with the identifier taken untrimmed, as _normalizeIdentifier leaves it.
C15_OneRecordPerHeaderUntrimmed == [][ParsedAsExpected(FALSE)]_vars

====
